---- MODULE Spec2Model ----
(***************************************************************************)
(* Model of the Markdown table grammar (src/src/parser/table.rs), the      *)
(* document segmenter (src/src/parser/parser.rs) and the HTML renderer     *)
(* (src/src/convert/convert.rs).                                           *)
(*                                                                         *)
(* A text (&str) is a sequence of one-character strings.  An owned String  *)
(* (Word::Normal, the HTML output) is a TLA+ string.  An Option result is  *)
(* a record with a tag: "Some", "None", or "Panic" when the Rust code      *)
(* aborts (a slice whose start is past its end, or an explicit panic!).    *)
(***************************************************************************)
EXTENDS Naturals, Sequences, FiniteSets, TLC

VARIABLES
    text,   \* parse: the remaining input (parser.rs:71 `mut text`)
    md,     \* parse: the nodes pushed so far (parser.rs:73 `md`)
    pc,     \* position of the pipeline / of the function under call
    step,   \* parse: what the last loop iteration was given and which parsers it applied
    html,   \* the strings to_html has returned, one per node rendered
    call,   \* a single function call: the function and its arguments
    ret     \* the value that call returned

vars == <<text, md, pc, step, html, call, ret>>

(***************************************************************************)
(* Bounds of the model.                                                    *)
(***************************************************************************)
MaxLines == 4      \* lines of a document
MaxCols == 2       \* cells of a generated pipe row
MaxCellLen == 4    \* characters of an alignment cell
MaxLineLen == 5    \* characters of a single line given to record / align
MaxRows == 2       \* body rows of a Table given to convert_table

NL == "\n"

None == [tag |-> "None"]
Panic == [tag |-> "Panic"]
Some(token, rest) == [tag |-> "Some", token |-> token, rest |-> rest]

(***************************************************************************)
(* str primitives of the standard library, as the code uses them.          *)
(***************************************************************************)
starts_with(t, c) == Len(t) >= 1 /\ t[1] = c

ends_with(t, c) == Len(t) >= 1 /\ t[Len(t)] = c

IsWhitespace(c) == c \in {" ", NL}

RECURSIVE trim_end(_)
trim_end(t) ==
    IF Len(t) > 0 /\ IsWhitespace(t[Len(t)])
    THEN trim_end(SubSeq(t, 1, Len(t) - 1))
    ELSE t

RECURSIVE trim_start(_)
trim_start(t) ==
    IF Len(t) > 0 /\ IsWhitespace(t[1])
    THEN trim_start(Tail(t))
    ELSE t

trim(t) == trim_start(trim_end(t))

\* &t[b..e] is defined when b <= e <= len; otherwise the slice expression panics
SliceOk(t, b, e) == b <= e /\ e <= Len(t)

Slice(t, b, e) == SubSeq(t, b + 1, e)

\* position of the first c in t at or after i, 0 when there is none
RECURSIVE find(_, _, _)
find(t, c, i) ==
    IF i > Len(t) THEN 0
    ELSE IF t[i] = c THEN i
    ELSE find(t, c, i + 1)

\* str::split: the pieces between the separators, one piece for a text without any
RECURSIVE split(_, _)
split(t, c) ==
    LET at(i) == IF i = 0 THEN <<t>>
                 ELSE <<SubSeq(t, 1, i - 1)>> \o split(SubSeq(t, i + 1, Len(t)), c)
    IN  at(find(t, c, 1))

\* the owned String of a &str
RECURSIVE to_string(_)
to_string(t) == IF t = <<>> THEN "" ELSE t[1] \o to_string(Tail(t))

(***************************************************************************)
(* Collaborators of the table grammar and of the segmenter.                *)
(***************************************************************************)
\* (text before the first pattern, text after it); no pattern: (text, "")
split_first_pattern(texts, pattern) ==
    LET at(i) == IF i = 0 THEN <<texts, <<>>>>
                 ELSE <<SubSeq(texts, 1, i - 1), SubSeq(texts, i + 1, Len(texts))>>
    IN  at(find(texts, pattern, 1))

Normal(val) == [kind |-> "Normal", val |-> val]

Emph(kind, ws) == [kind |-> kind, words |-> ws]

\* Inline Word Grammar on a text without delimiter characters: one Plain span
words(txt) == [tag |-> "Words", v |-> <<Normal(to_string(txt))>>]

RECURSIVE count_hash(_)
count_hash(t) == IF starts_with(t, "#") THEN 1 + count_hash(Tail(t)) ELSE 0

heading(texts) ==
    LET line(n, after, rest) ==
            IF n = 0 \/ ~starts_with(after, " ") THEN None
            ELSE Some([kind |-> "Heading", size |-> n, words |-> words(Tail(after))], rest)
        hashes(n, l, rest) == line(n, SubSeq(l, n + 1, Len(l)), rest)
        on(sp) == hashes(count_hash(sp[1]), sp[1], sp[2])
    IN  on(split_first_pattern(texts, NL))

sentence(texts) ==
    LET on(sp) == Some([kind |-> "Sentence", words |-> words(sp[1])], sp[2])
    IN  IF texts = <<>> THEN None
        ELSE on(split_first_pattern(texts, NL))

(***************************************************************************)
(* Table grammar: src/src/parser/table.rs                                  *)
(***************************************************************************)
is_only_hyphen(t) ==
    LET chars == {t[i] : i \in 1..Len(t)}
    IN  Cardinality(chars) = 1 /\ "-" \in chars

\* a match arm whose guard slices text[b..e]: the slice panics, or the guard decides
guard_arm(t, b, e, a) ==
    IF ~SliceOk(t, b, e) THEN Panic
    ELSE IF is_only_hyphen(Slice(t, b, e)) THEN [tag |-> "Some", v |-> a]
    ELSE None

align_parse(t) ==
    LET arms(l, r) ==
            CASE ~l /\ ~r -> guard_arm(t, 0, Len(t), "Left")
              [] ~l /\ r -> guard_arm(t, 0, Len(t) - 1, "Right")
              [] l /\ ~r -> guard_arm(t, 1, Len(t), "Left")
              [] l /\ r -> guard_arm(t, 1, Len(t) - 1, "Center")
    IN  arms(starts_with(t, ":"), ends_with(t, ":"))

\* the closure record is given: header and records pass words, align passes align_parse
closure(decoder, cell) ==
    IF decoder = "words" THEN words(cell) ELSE align_parse(trim(cell))

record(texts, decoder) ==
    LET collect(token, rest) ==
            IF \E i \in 1..Len(token) : token[i].tag = "Panic" THEN Panic
            ELSE Some(token, rest)
        map(cells, rest) ==
            collect([i \in 1..Len(cells) |-> closure(decoder, trim(cells[i]))], rest)
        row(line, end, rest) ==
            IF ~starts_with(line, "|") \/ ~ends_with(line, "|") THEN None
            ELSE IF ~SliceOk(line, 1, end) THEN Panic
            ELSE map(split(Slice(line, 1, end), "|"), rest)
        trimmed(line, rest) == row(line, Len(line) - 1, rest)
        on(sp) == trimmed(trim_end(sp[1]), sp[2])
    IN  on(split_first_pattern(texts, NL))

header(texts) ==
    LET on(cells) == IF cells.tag # "Some" THEN cells
                     ELSE Some(cells.token, cells.rest)
    IN  on(record(texts, "words"))

\* result.token.into_iter().filter_map(|opt| opt).collect()
filter_map(token) ==
    LET unwrap(valid) == [i \in 1..Len(valid) |-> valid[i].v]
    IN  unwrap(SelectSeq(token, LAMBDA opt : opt.tag = "Some"))

align(texts, num) ==
    LET check(aligns, rest) == IF Len(aligns) # num THEN None
                               ELSE Some(aligns, rest)
        on(result) == IF result.tag # "Some" THEN result
                      ELSE check(filter_map(result.token), result.rest)
    IN  on(record(texts, "align_parse"))

\* records with the push moved above the length test
RECURSIVE records_loop_push_first(_, _, _)
records_loop_push_first(texts, n, recs) ==
    LET on(result) ==
            IF result.tag = "Panic" THEN Panic
            ELSE IF result.tag = "None"
                 THEN [tag |-> "Exit", recs |-> recs, texts |-> texts]
            ELSE IF Len(result.token) # n
                 THEN [tag |-> "Exit", recs |-> Append(recs, result.token),
                       texts |-> result.rest]
            ELSE records_loop_push_first(result.rest, n, Append(recs, result.token))
    IN  on(record(texts, "words"))

\* the while-let loop of records: the rows pushed and the text left when it exits
RECURSIVE records_loop(_, _, _)
records_loop(texts, n, recs) ==
    LET on(result) ==
            IF result.tag = "Panic" THEN Panic
            ELSE IF result.tag = "None"
                 THEN [tag |-> "Exit", recs |-> recs, texts |-> texts]
            ELSE IF Len(result.token) # n
                 THEN [tag |-> "Exit", recs |-> recs, texts |-> result.rest]
            ELSE records_loop(result.rest, n, Append(recs, result.token))
    IN  on(record(texts, "words"))

records(texts, n) ==
    LET after(loop) == IF loop.tag = "Panic" THEN Panic
                       ELSE IF loop.recs = <<>> THEN None
                       ELSE Some(loop.recs, loop.texts)
    IN  after(records_loop(texts, n, <<>>))

record_len(r) == Len(r)

\* table returning the text it was given as the rest
table_no_advance(texts) ==
    LET body(hdr, aligns, records_result) ==
            IF records_result.tag # "Some" THEN records_result
            ELSE Some([kind |-> "Table", header |-> hdr, align |-> aligns,
                       records |-> records_result.token],
                      texts)
        aligned(hdr, column_num, align_result) ==
            IF align_result.tag # "Some" THEN align_result
            ELSE body(hdr, align_result.token, records(align_result.rest, column_num))
        columns(hdr, column_num, rest) ==
            aligned(hdr, column_num, align(rest, column_num))
        headed(header_result) ==
            IF header_result.tag # "Some" THEN header_result
            ELSE columns(header_result.token, record_len(header_result.token),
                         header_result.rest)
    IN  headed(header(texts))

table(texts) ==
    LET body(hdr, aligns, records_result) ==
            IF records_result.tag # "Some" THEN records_result
            ELSE Some([kind |-> "Table", header |-> hdr, align |-> aligns,
                       records |-> records_result.token],
                      records_result.rest)
        aligned(hdr, column_num, align_result) ==
            IF align_result.tag # "Some" THEN align_result
            ELSE body(hdr, align_result.token, records(align_result.rest, column_num))
        columns(hdr, column_num, rest) ==
            aligned(hdr, column_num, align(rest, column_num))
        headed(header_result) ==
            IF header_result.tag # "Some" THEN header_result
            ELSE columns(header_result.token, record_len(header_result.token),
                         header_result.rest)
    IN  headed(header(texts))

(***************************************************************************)
(* HTML renderer: src/src/convert/convert.rs                               *)
(***************************************************************************)
RECURSIVE convert_word(_)
RECURSIVE convert_words_fold(_, _)

\* the fold of convert_words over the spans not yet visited
convert_words_fold(acc, ws) ==
    IF ws = <<>> THEN acc
    ELSE convert_words_fold(acc \o convert_word(ws[1]), Tail(ws))

convert_words(ws) == convert_words_fold("", ws.v)

convert_word(word) ==
    CASE word.kind = "Normal" -> word.val
      [] word.kind = "Italic" -> "<i>" \o convert_words_fold("", word.words) \o "</i>"
      [] word.kind = "Bold" -> "<b>" \o convert_words_fold("", word.words) \o "</b>"
      [] word.kind = "StrikeThough" -> "<s>" \o convert_words_fold("", word.words) \o "</s>"
      [] word.kind = "Underline" -> "<u>" \o convert_words_fold("", word.words) \o "</u>"

RECURSIVE convert_header_fold(_, _)
convert_header_fold(acc, cells) ==
    IF cells = <<>> THEN acc
    ELSE convert_header_fold(acc \o "<th>" \o convert_words(cells[1]) \o "</th>", Tail(cells))

convert_header(rec) == convert_header_fold("", rec)

\* the match of convert_record with the arms of Right and Left exchanged
align_name_exchanged(a) ==
    CASE a = "Right" -> "left"
      [] a = "Center" -> "center"
      [] a = "Left" -> "right"

align_name(a) ==
    CASE a = "Right" -> "right"
      [] a = "Center" -> "center"
      [] a = "Left" -> "left"

\* the fold of convert_record over record.0.iter().zip(aligns.iter()): it ends with the shorter
RECURSIVE convert_record_fold(_, _, _)
convert_record_fold(acc, cells, aligns) ==
    IF cells = <<>> \/ aligns = <<>> THEN acc
    ELSE convert_record_fold(
             acc \o "<td align=\"" \o align_name(aligns[1]) \o "\">"
                 \o convert_words(cells[1]) \o "</td>",
             Tail(cells), Tail(aligns))

convert_record(rec, aligns) == convert_record_fold("", rec, aligns)

RECURSIVE convert_records_fold(_, _, _)
convert_records_fold(acc, recs, aligns) ==
    IF recs = <<>> THEN acc
    ELSE convert_records_fold(
             acc \o "<tr>" \o convert_record(recs[1], aligns) \o "</tr>\n",
             Tail(recs), aligns)

convert_records(recs, aligns) == convert_records_fold("", recs, aligns)

convert_table(t) ==
    LET format(hdr, recs) == "<table>\n" \o hdr \o "\n" \o recs \o "</table>\n"
    IN  format("<tr>" \o convert_header(t.header) \o "</tr>",
               convert_records(t.records, t.align))

to_html(node) ==
    CASE node.kind = "Heading" ->
             [tag |-> "Ok",
              v |-> "<h" \o ToString(node.size) \o ">" \o convert_words(node.words)
                        \o "</h" \o ToString(node.size) \o ">"]
      [] node.kind = "Sentence" -> [tag |-> "Ok", v |-> convert_words(node.words)]
      [] OTHER -> Panic

(***************************************************************************)
(* Inputs.                                                                 *)
(***************************************************************************)
Strings(alphabet, n) == UNION {[1..k -> alphabet] : k \in 0..n}

RECURSIVE join_cells(_)
join_cells(cs) == IF cs = <<>> THEN <<>> ELSE cs[1] \o <<"|">> \o join_cells(Tail(cs))

\* a pipe row of n cells: k cells "-" (a valid alignment token) and then n - k cells "a"
Row(n, k) == <<"|">> \o join_cells([i \in 1..n |-> IF i <= k THEN <<"-">> ELSE <<"a">>])

\* the pipe rows with at least one valid alignment cell
RowLines == UNION {{Row(n, k) : k \in 1..n} : n \in 1..MaxCols}

\* a pipe row without a valid alignment cell, a sentence, a heading, a lone pipe
OtherLines == {Row(1, 0), <<"a">>, <<"#", " ", "a">>, <<"|">>}

Lines == RowLines \cup OtherLines

RECURSIVE join_lines(_)
join_lines(ls) == IF ls = <<>> THEN <<>> ELSE ls[1] \o <<NL>> \o join_lines(Tail(ls))

Docs == {join_lines(ls) : ls \in Strings(Lines, MaxLines)}

AlignCells == Strings({":", "-", "a"}, MaxCellLen)

LineTails == {<<>>, <<NL>>, <<NL, "|", "a", "|">>}

RecordTexts == {l \o tl : l \in Strings({"|", "-", ":", " ", "a"}, MaxLineLen), tl \in LineTails}

Aligns == {"Left", "Center", "Right"}

CellWords ==
    { [tag |-> "Words", v |-> <<Normal("a")>>],
      [tag |-> "Words", v |-> <<Normal("b"), Emph("Bold", <<Normal("c")>>)>>] }

\* the rows of n cells a Table of the data model holds
Rows(n) == [1..n -> CellWords]

(***************************************************************************)
(* The pipeline: parse (src/src/parser/parser.rs), then to_html per node.  *)
(***************************************************************************)
NoCall == [fn |-> "none"]

NoStep == [input |-> <<>>, tried |-> <<>>, tags |-> <<>>]

Init ==
    /\ text \in Docs
    /\ md = <<>>
    /\ pc = "parse"
    /\ step = NoStep
    /\ html = <<>>
    /\ call = NoCall
    /\ ret = None

\* parsers.iter().find_map(|f| f(text)): the parsers applied, in order, up to the first
\* that does not return None, what each returned, and the last one's result
find_map(texts) ==
    LET third(t, h, s) ==
            [tried |-> <<"table", "heading", "sentence">>,
             tags |-> <<t.tag, h.tag, s.tag>>, found |-> s]
        second(t, h) ==
            IF h.tag # "None"
            THEN [tried |-> <<"table", "heading">>, tags |-> <<t.tag, h.tag>>, found |-> h]
            ELSE third(t, h, sentence(texts))
        first(t) ==
            IF t.tag # "None"
            THEN [tried |-> <<"table">>, tags |-> <<t.tag>>, found |-> t]
            ELSE second(t, heading(texts))
    IN  first(table(texts))

\* the body of the while-let loop of parse, or its exit
Iterate(fm) ==
    /\ step' = [input |-> text, tried |-> fm.tried, tags |-> fm.tags]
    /\ IF fm.found.tag = "Panic"
       THEN pc' = "parse_panic" /\ UNCHANGED <<text, md>>
       ELSE IF fm.found.tag = "None"
       THEN pc' = "parsed" /\ UNCHANGED <<text, md>>
       ELSE /\ md' = Append(md, fm.found.token)
            /\ text' = fm.found.rest
            /\ pc' = "parse"

\* one iteration of `while let Some(ret) = parsers.iter().find_map(|f| f(text))`
ParseStep ==
    /\ pc = "parse"
    /\ Iterate(find_map(text))
    /\ UNCHANGED <<html, call, ret>>

Rendered(r) ==
    IF r.tag = "Panic"
    THEN pc' = "render_panic" /\ UNCHANGED html
    ELSE html' = Append(html, r.v) /\ UNCHANGED pc

\* to_html on the next node of the list parse returned
Render ==
    /\ pc = "parsed"
    /\ Len(html) < Len(md)
    /\ Rendered(to_html(md[Len(html) + 1]))
    /\ UNCHANGED <<text, md, step, call, ret>>

Next == ParseStep \/ Render

Spec == Init /\ [][Next]_vars

(***************************************************************************)
(* Single calls of the functions of table.rs and convert.rs.               *)
(***************************************************************************)
InitCall(calls) ==
    /\ call \in calls
    /\ ret = None
    /\ pc = "call"
    /\ text = <<>>
    /\ md = <<>>
    /\ step = NoStep
    /\ html = <<>>

Return(value) ==
    /\ pc = "call"
    /\ ret' = value
    /\ pc' = "returned"
    /\ UNCHANGED <<text, md, step, html, call>>

InitAlignParse == InitCall({[fn |-> "align_parse", text |-> c] : c \in AlignCells})

CallAlignParse == Return(align_parse(call.text))

SpecAlignParse == InitAlignParse /\ [][CallAlignParse]_vars

InitRecord ==
    InitCall({[fn |-> "record", text |-> t, decoder |-> d] :
                 t \in RecordTexts, d \in {"words", "align_parse"}})

CallRecord == Return(record(call.text, call.decoder))

SpecRecord == InitRecord /\ [][CallRecord]_vars

InitAlign ==
    InitCall({[fn |-> "align", text |-> t, num |-> n] : t \in RecordTexts, n \in 1..MaxCols})

CallAlign == Return(align(call.text, call.num))

SpecAlign == InitAlign /\ [][CallAlign]_vars

InitRecords ==
    InitCall({[fn |-> "records", text |-> t, n |-> n] : t \in Docs, n \in 1..MaxCols})

CallRecords == Return(records(call.text, call.n))

SpecRecords == InitRecords /\ [][CallRecords]_vars

\* the Tables of the data model: one alignment per header cell, rows as long as the header
InitConvertTable ==
    \E n \in 1..MaxCols :
        \E h \in Rows(n), a \in [1..n -> Aligns], rs \in Strings(Rows(n), MaxRows) :
            InitCall({[fn |-> "convert_table",
                       table |-> [kind |-> "Table", header |-> h, align |-> a,
                                  records |-> rs]]})

CallConvertTable == Return(convert_table(call.table))

SpecConvertTable == InitConvertTable /\ [][CallConvertTable]_vars

(***************************************************************************)
(* Properties.                                                             *)
(***************************************************************************)
IsSuffix(s, t) == Len(s) <= Len(t) /\ SubSeq(t, Len(t) - Len(s) + 1, Len(t)) = s

\* t without its first k lines
RECURSIVE DropLines(_, _)
DropLines(t, k) == IF k = 0 THEN t ELSE DropLines(split_first_pattern(t, NL)[2], k - 1)

\* the first line of t, trailing whitespace trimmed
FirstLine(t) == trim_end(split_first_pattern(t, NL)[1])

IsPipeRow(line) == starts_with(line, "|") /\ ends_with(line, "|")

\* the trimmed cell texts of a pipe row of two characters or more
LineCells(line) ==
    LET cells == split(SubSeq(line, 2, Len(line) - 1), "|")
    IN  [i \in 1..Len(cells) |-> trim(cells[i])]

\* how many of the leading lines of t are pipe rows of n cells
RECURSIVE MatchingRows(_, _)
MatchingRows(t, n) ==
    LET r == record(t, "words")
    IN  IF r.tag = "Some" /\ Len(r.token) = n THEN 1 + MatchingRows(r.rest, n) ELSE 0

LastNode == md[Len(md)]

\* C1: when records meets a pipe row whose cell count differs from n after at least
\* one matching row, it returns exactly the rows before it, and a rest that starts
\* at the mismatched row.
C1_EarlyStopKeepsRow ==
    pc = "returned" =>
        LET k == MatchingRows(call.text, call.n)
            after == DropLines(call.text, k)
            r == record(after, "words")
        IN  (k >= 1 /\ r.tag = "Some" /\ Len(r.token) # call.n) =>
                /\ ret.tag = "Some"
                /\ ret.token = [i \in 1..k |-> record(DropLines(call.text, i - 1), "words").token]
                /\ ret.rest = after

\* C2: align(line, n) succeeds only if the line has exactly n cells and every one of
\* them decodes to a valid alignment token.
C2_AlignStrict ==
    (pc = "returned" /\ ret.tag = "Some") =>
        LET cells == LineCells(FirstLine(call.text))
        IN  /\ Len(cells) = call.num
            /\ \A i \in 1..Len(cells) : align_parse(cells[i]).tag = "Some"

\* C3: every node parse returns has a rendering rule in to_html: rendering never
\* reaches the fatal condition.
C3_EveryNodeRenders == pc # "render_panic"

\* the core of an alignment cell: one leading colon and one trailing colon removed
Core(s) ==
    LET s1 == IF starts_with(s, ":") THEN Tail(s) ELSE s
    IN  IF ends_with(s, ":") /\ s1 # <<>> THEN SubSeq(s1, 1, Len(s1) - 1) ELSE s1

Decoded(s) ==
    IF Core(s) = <<>> \/ \E i \in 1..Len(Core(s)) : Core(s)[i] # "-" THEN None
    ELSE [tag |-> "Some",
          v |-> CASE ~starts_with(s, ":") /\ ends_with(s, ":") -> "Right"
                  [] starts_with(s, ":") /\ ends_with(s, ":") -> "Center"
                  [] OTHER -> "Left"]

\* C4: align_parse is total: it returns the alignment the colons select when the core
\* is a non-empty run of '-', and no match (never a fatal error) for every other cell.
C4_AlignParseTotal == pc = "returned" => ret = Decoded(call.text)

\* C5: record (with a decoder that cannot fail) returns no match or a cell sequence,
\* never a fatal error, and no match exactly when the trimmed first line does not both
\* start and end with '|'.
C5_RecordNeverFatal ==
    (pc = "returned" /\ call.decoder = "words") =>
        /\ ret.tag \in {"None", "Some"}
        /\ ret.tag = "None" <=> ~IsPipeRow(FirstLine(call.text))

\* C6: every Table parse has pushed has as many alignments as header cells, and every
\* body row has that number of cells.
C6_ColumnCount ==
    \A i \in 1..Len(md) :
        md[i].kind = "Table" =>
            /\ Len(md[i].align) = Len(md[i].header)
            /\ \A r \in 1..Len(md[i].records) : Len(md[i].records[r]) = Len(md[i].header)

\* a Table with two body rows whose alignment line held more cells than its header
C6_Witness ==
    /\ step.tried = <<"table">>
    /\ step.tags = <<"Some">>
    /\ Len(LastNode.records) >= 2
    /\ Len(LineCells(FirstLine(DropLines(step.input, 1)))) > Len(LastNode.header)

\* C7: every successful rule strictly advances: the row primitive returns a rest that
\* is a strictly shorter suffix of its text, and every iteration of the loop of parse
\* that continues leaves a strictly shorter suffix of the text it was given.
C7_StrictAdvance ==
    [][ /\ (pc = "parse" /\ record(text, "words").tag = "Some") =>
               /\ Len(record(text, "words").rest) < Len(text)
               /\ IsSuffix(record(text, "words").rest, text)
        /\ (pc = "parse" /\ pc' = "parse") =>
               /\ Len(text') < Len(text)
               /\ IsSuffix(text', text) ]_vars

\* the loop of parse goes on after a Table and a second node
C7_Witness ==
    /\ pc = "parse"
    /\ Len(md) >= 2
    /\ md[1].kind = "Table"
    /\ step.tags = <<"None", "None", "Some">>

\* the cell counts a pipe row can be read to have: a lone "|" has no cell, or an empty one
PipeCellCounts(line) == IF Len(line) = 1 THEN {0, 1} ELSE {Len(LineCells(line))}

\* the header and the alignment row of t parse, and no body row is collected: there
\* is no further line, or the next line is no pipe row, or it has another cell count
ZeroRowsCase(t) ==
    LET hdr == header(t)
    IN  /\ hdr.tag = "Some"
        /\ LET al == align(hdr.rest, Len(hdr.token))
           IN  /\ al.tag = "Some"
               /\ \/ al.rest = <<>>
                  \/ ~IsPipeRow(FirstLine(al.rest))
                  \/ Len(hdr.token) \notin PipeCellCounts(FirstLine(al.rest))

\* C8: table succeeds only with at least one body row of the header's column count;
\* when none is collected it returns no match, and parse applies heading and then
\* sentence to the same text.
C8_TableNeedsRow ==
    step.tags # <<>> =>
        /\ step.tags[1] = "Some" =>
               /\ LastNode.kind = "Table"
               /\ Len(LastNode.records) >= 1
               /\ \A r \in 1..Len(LastNode.records) :
                      Len(LastNode.records[r]) = Len(LastNode.header)
        /\ ZeroRowsCase(step.input) =>
               /\ step.tried = <<"table", "heading", "sentence">>
               /\ step.tags = <<"None", heading(step.input).tag, sentence(step.input).tag>>
               /\ LastNode = sentence(step.input).token
               /\ text = sentence(step.input).rest

Cat(ss) == LET RECURSIVE cat(_)
               cat(i) == IF i > Len(ss) THEN "" ELSE ss[i] \o cat(i + 1)
           IN  cat(1)

AlignAttr == [Left |-> "left", Center |-> "center", Right |-> "right"]

ExpectedTable(t) ==
    "<table>\n<tr>"
    \o Cat([i \in 1..Len(t.header) |-> "<th>" \o convert_words(t.header[i]) \o "</th>"])
    \o "</tr>\n"
    \o Cat([r \in 1..Len(t.records) |->
              "<tr>"
              \o Cat([i \in 1..Len(t.records[r]) |->
                        "<td align=\"" \o AlignAttr[t.align[i]] \o "\">"
                        \o convert_words(t.records[r][i]) \o "</td>"])
              \o "</tr>\n"])
    \o "</table>\n"

\* C9: convert_table returns "<table>\n<tr>", one <th> per header cell, "</tr>\n",
\* then per body row "<tr>", one <td align="..."> per cell with the alignment of its
\* column, "</tr>\n", and "</table>\n".
C9_TableShape == pc = "returned" => ret = ExpectedTable(call.table)

\* two body rows of two cells under two different alignments, the second not Center
C9_Witness ==
    /\ pc = "returned"
    /\ Len(call.table.records) = 2
    /\ Len(call.table.header) = 2
    /\ call.table.align = <<"Center", "Right">>
    /\ call.table.records[1] # call.table.records[2]

\* C10: when parse pushes a Table whose body stopped at a row with another cell
\* count, the text it goes on with begins at that row.
C10_NoRowLost ==
    (step.tags = <<"Some">> /\ step.tried = <<"table">>) =>
        LET after == DropLines(step.input, 2 + Len(LastNode.records))
            r == record(after, "words")
        IN  (r.tag = "Some" /\ Len(r.token) # Len(LastNode.header)) => text = after

====
